---- MODULE Spec2Model ----
(***************************************************************************)
(* A model of flax/component.py: the component metaclass (handler          *)
(* extraction and descriptor installation at class-definition time), the   *)
(* deferred initializer, the attribute descriptor with its modifier chain, *)
(* and event dispatch along the event's class hierarchy.                   *)
(***************************************************************************)
EXTENDS Integers, Sequences, FiniteSets, TLC

VARIABLES
    classes,        \* class name -> the class object built by ComponentMeta
    defError,       \* class names whose class statement raised TypeError
    calls,          \* handler invocations of the last handle_event, in order
    outcome,        \* how the last operation ended: "none", "returned", "raised"
    lastOp,         \* the last operation and its arguments (history)
    component_data, \* entity -> (attribute identity -> raw value)
    relations,      \* entity -> relation table, in key insertion order
    initializers,   \* the ComponentInitializer objects created so far
    dispatched,     \* the number of handle_event calls made so far
    declared,       \* class name -> the class body its class statement had (history)
    world,          \* the scheduler's event queue and the current map
    instances,      \* the component instances adapted so far, in order
    attacks         \* origin of each MeleeAttack processed -> its target, the
                    \* origins queued behind it, whether it was deadly (history)

vars == <<classes, defError, calls, outcome, lastOp,
          component_data, relations, initializers, dispatched, declared,
          world, instances, attacks>>

(***************************************************************************)
(* Bounds.                                                                 *)
(***************************************************************************)
MaxAttrs == 2        \* entries in the class body of the class under definition
MaxRelations == 2    \* relations alive at once
MaxInitializers == 2 \* initializers captured
MaxDispatches == 2   \* handle_event calls in one behaviour
MaxEvents == 2       \* events the driver puts in the queue
MaxInstances == 2    \* component instances adapted

(***************************************************************************)
(* Generic sequence helpers.                                               *)
(***************************************************************************)
Range(s) == {s[i] : i \in 1..Len(s)}

InjectiveSeqs(S, n) ==
    UNION {{s \in [1..m -> S] : \A i, j \in 1..m : i # j => s[i] # s[j]} : m \in 0..n}

InsertAt(s, i, x) == SubSeq(s, 1, i - 1) \o <<x>> \o SubSeq(s, i, Len(s))

Reverse(s) == [i \in 1..Len(s) |-> s[Len(s) + 1 - i]]

\* The index of the first element of s equal to x, 0 when there is none.
IndexOf(s, x) ==
    IF x \in Range(s) THEN CHOOSE i \in 1..Len(s) : s[i] = x /\ \A j \in 1..(i - 1) : s[j] # x
    ELSE 0

(***************************************************************************)
(* Event kinds.  flax.event is imported by the module; the kinds Base,     *)
(* Derived(Base) and Other are the hierarchy of the dispatch properties.   *)
(***************************************************************************)
EventKinds ==
    {"object", "Event", "Base", "Derived", "Other",
     "PickUp", "MeleeAttack", "Damage", "Die", "Ascend", "Descend", "Walk",
     "Equip", "Unequip"}

\* The single base class of each event kind.
EventBase ==
    [k \in EventKinds |->
        CASE k = "Derived" -> "Base"
          [] k \in {"object", "Event"} -> "object"
          [] OTHER -> "Event"]

\* type(event).__mro__ for single inheritance: the kind, then its ancestors.
RECURSIVE Mro(_)
Mro(k) == IF k = "object" THEN <<"object">> ELSE <<k>> \o Mro(EventBase[k])

\* The kinds an event delivered in the model can have.
DispatchKinds == {"Base", "Derived", "Other"}

(***************************************************************************)
(* Handler marking: @handler(event_class) and Handler.wrap.                *)
(* A class-body value is a record: a plain function, or a Handler holding  *)
(* the function and the event classes it was registered for.               *)
(***************************************************************************)
PlainFunc(f) == [isHandler |-> FALSE, func |-> f, event_classes |-> <<>>]

PlainEntry(k) == [key |-> k, value |-> PlainFunc(k)]

\* Handler.wrap(func, event_class)
wrap(value, event_class) ==
    IF value.isHandler
    THEN [value EXCEPT !.event_classes = Append(@, event_class)]
    ELSE [isHandler |-> TRUE, func |-> value.func, event_classes |-> <<event_class>>]

\* A stack of @handler decorators, written top to bottom as in the source,
\* applied to function f: the bottom decorator is applied first.
RECURSIVE handler(_, _)
handler(stack, f) ==
    IF stack = <<>> THEN PlainFunc(f)
    ELSE wrap(handler(Tail(stack), f), Head(stack))

(***************************************************************************)
(* The handler registry: a defaultdict(list), a function whose domain is   *)
(* the set of keys present.                                                *)
(***************************************************************************)
EmptyRegistry == [k \in {} |-> <<>>]

\* d[key] of a defaultdict(list): a missing key is inserted with [].
Touch(d, key) ==
    IF key \in DOMAIN d THEN d
    ELSE [k \in (DOMAIN d) \cup {key} |-> IF k = key THEN <<>> ELSE d[k]]

\* Mutant: the handler is put first in the list instead of last.
PrependTo(d, key, x) ==
    LET t == Touch(d, key) IN [t EXCEPT ![key] = <<x>> \o @]

\* d[key].append(x)
AppendTo(d, key, x) ==
    LET t == Touch(d, key) IN [t EXCEPT ![key] = Append(@, x)]

RECURSIVE RegisterAll(_, _, _)
\* for cls in value.event_classes: event_handlers[cls].append(value.func)
RegisterAll(d, event_classes, f) ==
    IF event_classes = <<>> THEN d
    ELSE RegisterAll(AppendTo(d, Head(event_classes), f), Tail(event_classes), f)

(***************************************************************************)
(* ComponentMeta.__new__: attrs is the class namespace, a dict in          *)
(* declaration order, modelled as a sequence of [key, value] with          *)
(* distinct keys.                                                          *)
(***************************************************************************)
RECURSIVE ExtractHandlersKeep(_, _, _)
\* Mutant: a handler is registered but its key is left in attrs.
ExtractHandlersKeep(attrs, d, kept) ==
    IF attrs = <<>> THEN [event_handlers |-> d, kept |-> kept]
    ELSE LET e == Head(attrs) IN
         IF e.value.isHandler
         THEN ExtractHandlersKeep(Tail(attrs),
                                  RegisterAll(d, e.value.event_classes, e.value.func),
                                  Append(kept, e.key))
         ELSE ExtractHandlersKeep(Tail(attrs), d, Append(kept, e.key))

RECURSIVE ExtractHandlers(_, _, _)
\* The loop over list(attrs.items()): returns the registry and the entries kept.
ExtractHandlers(attrs, d, kept) ==
    IF attrs = <<>> THEN [event_handlers |-> d, kept |-> kept]
    ELSE LET e == Head(attrs) IN
         IF e.value.isHandler
         THEN ExtractHandlers(Tail(attrs),
                              RegisterAll(d, e.value.event_classes, e.value.func), kept)
         ELSE ExtractHandlers(Tail(attrs), d, Append(kept, e.key))

\* The class created: its registry and the keys of its own __dict__
\* (attrs['event_handlers'] = event_handlers keeps the position of an
\* existing key and otherwise adds the key last; type.__new__ then gives the
\* class a __doc__ when attrs has none).
ComponentMeta_new(attrs) ==
    LET x == ExtractHandlers(attrs, EmptyRegistry, <<>>)
        withRegistry == IF "event_handlers" \in Range(x.kept) THEN x.kept
                        ELSE Append(x.kept, "event_handlers")
    IN  [event_handlers |-> x.event_handlers,
         dict |-> IF "__doc__" \in Range(withRegistry) THEN withRegistry
                  ELSE Append(withRegistry, "__doc__")]

(***************************************************************************)
(* Interfaces: each a sequence of declarations [name, mode], mode being    *)
(* "static" (static_attribute), "derived" (derived_attribute) or "none"    *)
(* (a method, or an untagged attribute).                                   *)
(***************************************************************************)
static_attribute(name) == [name |-> name, mode |-> "static"]
derived_attribute(name) == [name |-> name, mode |-> "derived"]
method(name) == [name |-> name, mode |-> "none"]

Interfaces ==
    [IComponent |-> <<>>,
     IPhysics   |-> <<method("blocks")>>,
     IPortal    |-> <<static_attribute("destination")>>,
     IContainer |-> <<static_attribute("inventory")>>,
     ICombatant |-> <<static_attribute("health"), static_attribute("strength")>>,
     IActor     |-> <<method("act")>>,
     IPortable  |-> <<>>,
     IEquipment |-> <<>>,
     I1         |-> <<static_attribute("value"), derived_attribute("total")>>,
     I2         |-> <<static_attribute("value")>>,
     I3         |-> <<static_attribute("event_handlers")>>]

StaticNames(iface) ==
    {d.name : d \in {x \in Range(Interfaces[iface]) : x.mode = "static"}}

DerivedNames(iface) ==
    {d.name : d \in {x \in Range(Interfaces[iface]) : x.mode = "derived"}}

(***************************************************************************)
(* ComponentMeta.__init__: one ComponentAttribute per static attribute of  *)
(* the interface; TypeError when the class's own __dict__ has the name.    *)
(***************************************************************************)
RECURSIVE InstallDescriptors(_, _, _)
\* The loop "for key in interface": dict is cls.__dict__'s keys, descs the
\* names given a descriptor so far.
InstallDescriptors(decls, dict, descs) ==
    IF decls = <<>> THEN [raised |-> FALSE, descriptors |-> descs]
    ELSE LET a == Head(decls) IN
         IF a.mode = "static"
         THEN IF a.name \in Range(dict) \cup descs
              THEN [raised |-> TRUE, descriptors |-> descs]
              ELSE InstallDescriptors(Tail(decls), dict, descs \cup {a.name})
         ELSE InstallDescriptors(Tail(decls), dict, descs)

\* Mutant: the descriptors are installed without the check of cls.__dict__.
ComponentMeta_init_unchecked(dict, iface) ==
    [raised |-> FALSE, descriptors |-> StaticNames(iface)]

\* cls.interface = interface puts "interface" in cls.__dict__ before the loop.
ComponentMeta_init(dict, iface) ==
    InstallDescriptors(Interfaces[iface],
                       IF "interface" \in Range(dict) THEN dict ELSE Append(dict, "interface"),
                       {})

\* "interface = cls.interface" when the class statement names none: the
\* interface of the base class in table.
ResolveInterface(table, base, interface) ==
    IF interface = "None" THEN table[base].interface ELSE interface

\* The namespace a class statement hands to the metaclass: __module__ and
\* __qualname__, then the bindings of the class body.
Namespace(body) == <<PlainEntry("__module__"), PlainEntry("__qualname__")>> \o body

\* Mutant: the registry of the new class starts from the handlers of its base.
ClassStatementInheriting(table, base, attrs, interface) ==
    LET iface == ResolveInterface(table, base, interface)
        c == ComponentMeta_new(Namespace(attrs))
        i == ComponentMeta_init(c.dict, iface)
        own == c.event_handlers
        parent == IF base \in DOMAIN table THEN table[base].event_handlers ELSE EmptyRegistry
    IN  [raised |-> i.raised,
         class |-> [base |-> base,
                    interface |-> iface,
                    dict |-> c.dict,
                    event_handlers |->
                        [k \in (DOMAIN own) \cup (DOMAIN parent) |->
                            (IF k \in DOMAIN parent THEN parent[k] ELSE <<>>)
                                \o (IF k \in DOMAIN own THEN own[k] ELSE <<>>)],
                    descriptors |-> i.descriptors]]

\* The class statement: __new__, then __init__.
ClassStatement(table, base, attrs, interface) ==
    LET iface == ResolveInterface(table, base, interface)
        c == ComponentMeta_new(Namespace(attrs))
        i == ComponentMeta_init(c.dict, iface)
    IN  [raised |-> i.raised,
         class |-> [base |-> base,
                    interface |-> iface,
                    dict |-> c.dict,
                    event_handlers |-> c.event_handlers,
                    descriptors |-> i.descriptors]]

(***************************************************************************)
(* The classes of the module, in definition order, each with its base, its *)
(* interface keyword and its class body.  V1 and V2 implement the two      *)
(* interfaces that both declare a stored attribute named "value".          *)
(***************************************************************************)
Def(k, stack) == [key |-> k, value |-> handler(stack, k)]

ModuleClasses ==
    << [name |-> "Component", base |-> "object", interface |-> "IComponent",
        attrs |-> <<Def("entity", <<>>), Def("__new__", <<>>), Def("handle_event", <<>>)>>],
       [name |-> "Solid", base |-> "Component", interface |-> "IPhysics",
        attrs |-> <<Def("blocks", <<>>), Def("handle_walk", <<"Walk">>)>>],
       [name |-> "Empty", base |-> "Component", interface |-> "IPhysics",
        attrs |-> <<Def("blocks", <<>>), Def("handle_walk", <<"Walk">>)>>],
       [name |-> "Portal", base |-> "Component", interface |-> "IPortal",
        attrs |-> <<Def("__init__", <<>>)>>],
       [name |-> "PortalDownstairs", base |-> "Portal", interface |-> "None",
        attrs |-> <<Def("handle_descend", <<"Descend">>)>>],
       [name |-> "PortalUpstairs", base |-> "Portal", interface |-> "None",
        attrs |-> <<Def("handle_ascend", <<"Ascend">>)>>],
       [name |-> "Container", base |-> "Component", interface |-> "IContainer",
        attrs |-> <<Def("__init__", <<>>)>>],
       [name |-> "Combatant", base |-> "Component", interface |-> "ICombatant",
        attrs |-> <<Def("__init__", <<>>), Def("handle_damage", <<"Damage">>),
                    Def("handle_attack", <<"MeleeAttack">>),
                    Def("handle_death", <<"Die">>)>>],
       [name |-> "GenericAI", base |-> "Component", interface |-> "IActor",
        attrs |-> <<Def("act", <<>>)>>],
       [name |-> "PlayerIntelligence", base |-> "Component", interface |-> "IActor",
        attrs |-> <<Def("act", <<>>)>>],
       [name |-> "Portable", base |-> "Component", interface |-> "IPortable",
        attrs |-> <<Def("handle_picked_up", <<"PickUp">>)>>],
       [name |-> "Equipment", base |-> "Component", interface |-> "IEquipment",
        attrs |-> <<Def("handle_equip", <<"Equip">>), Def("handle_unequip", <<"Unequip">>)>>],
       [name |-> "V1", base |-> "Component", interface |-> "I1",
        attrs |-> <<Def("__init__", <<>>), Def("total", <<>>)>>],
       [name |-> "V2", base |-> "Component", interface |-> "I2",
        attrs |-> <<Def("__init__", <<>>)>> ] >>

RECURSIVE DefineAll(_, _)
\* The class table after the class statements defs, run in order from table.
DefineAll(defs, table) ==
    IF defs = <<>> THEN table
    ELSE LET d == Head(defs)
             r == ClassStatement(table, d.base, d.attrs, d.interface)
         IN  DefineAll(Tail(defs),
                       IF r.raised THEN table ELSE (d.name :> r.class) @@ table)

ClassTable == DefineAll(ModuleClasses, <<>>)

(***************************************************************************)
(* Component.handle_event: for each class of the event's __mro__, each     *)
(* handler of self.event_handlers[event_class] is called; bad is the set   *)
(* of handler functions that raise when called.                            *)
(***************************************************************************)
RECURSIVE CallHandlersCatch(_, _, _)
\* Mutant: a handler that raises is caught and the loop goes on.
CallHandlersCatch(handlers, bad, made) ==
    IF handlers = <<>> THEN [calls |-> made, raised |-> FALSE]
    ELSE CallHandlersCatch(Tail(handlers), bad, Append(made, Head(handlers)))

RECURSIVE CallHandlers(_, _, _)
\* The inner loop: the calls made, and whether one raised (which ends it).
CallHandlers(handlers, bad, made) ==
    IF handlers = <<>> THEN [calls |-> made, raised |-> FALSE]
    ELSE IF Head(handlers) \in bad
         THEN [calls |-> Append(made, Head(handlers)), raised |-> TRUE]
         ELSE CallHandlers(Tail(handlers), bad, Append(made, Head(handlers)))

RECURSIVE DispatchAlong(_, _, _, _)
\* The outer loop over the remaining classes of the __mro__.
DispatchAlong(mro, event_handlers, bad, made) ==
    IF mro = <<>> THEN [event_handlers |-> event_handlers, calls |-> made, raised |-> FALSE]
    ELSE LET d == Touch(event_handlers, Head(mro))
             r == CallHandlers(d[Head(mro)], bad, made)
         IN  IF r.raised
             THEN [event_handlers |-> d, calls |-> r.calls, raised |-> TRUE]
             ELSE DispatchAlong(Tail(mro), d, bad, r.calls)

\* Mutant: the classes of the __mro__ are visited from the most general.
handle_event_general_first(event_handlers, kind, bad) ==
    DispatchAlong(Reverse(Mro(kind)), event_handlers, bad, <<>>)

handle_event(event_handlers, kind, bad) == DispatchAlong(Mro(kind), event_handlers, bad, <<>>)

(***************************************************************************)
(* The class statement of a new component class T.                         *)
(***************************************************************************)
BodyKeys == {"h1", "h2", "value", "event_handlers"}

DecoratorStacks == {<<>>, <<"Base">>, <<"Derived">>, <<"Derived", "Base">>}

ClassBodies ==
    UNION {{[i \in 1..Len(ks) |-> Def(ks[i], st[i])] : st \in [1..Len(ks) -> DecoratorStacks]}
           : ks \in InjectiveSeqs(BodyKeys, MaxAttrs)}

NewInterfaces == {"I1", "I3"}

NoOp == [op |-> "none"]

DefineClass ==
    /\ "T" \notin DOMAIN classes
    /\ "T" \notin defError
    /\ \E attrs \in ClassBodies, iface \in NewInterfaces :
         LET r == ClassStatement(classes, "Component", attrs, iface) IN
         /\ classes' = IF r.raised THEN classes ELSE ("T" :> r.class) @@ classes
         /\ defError' = IF r.raised THEN defError \cup {"T"} ELSE defError
         /\ outcome' = IF r.raised THEN "raised" ELSE "returned"
         /\ lastOp' = [op |-> "class", name |-> "T", attrs |-> attrs, interface |-> iface]
         /\ declared' = IF r.raised THEN declared ELSE ("T" :> attrs) @@ declared
    /\ UNCHANGED <<calls, component_data, relations, initializers, dispatched, world, instances, attacks>>

\* T.adapt(entity).handle_event(event), for an event of any dispatch kind.
HandleEvent ==
    /\ "T" \in DOMAIN classes
    /\ dispatched < MaxDispatches
    /\ \E kind \in DispatchKinds,
          bad \in {{}} \cup {{e.key} : e \in Range(declared["T"])} :
         LET r == handle_event(classes["T"].event_handlers, kind, bad) IN
         /\ classes' = [classes EXCEPT !["T"].event_handlers = r.event_handlers]
         /\ calls' = r.calls
         /\ outcome' = IF r.raised THEN "raised" ELSE "returned"
         /\ lastOp' = [op |-> "handle_event", cls |-> "T", event |-> kind, bad |-> bad]
    /\ dispatched' = dispatched + 1
    /\ UNCHANGED <<defError, component_data, relations, initializers, declared, world, instances, attacks>>

(***************************************************************************)
(* A subclass S of T, which takes T's interface, and dispatch to it.       *)
(***************************************************************************)
\* The class bodies of T: h1 and h2, each marked or not, in either order.
ParentBodies ==
    UNION {{[i \in 1..Len(ks) |-> Def(ks[i], st[i])] : st \in [1..Len(ks) -> DecoratorStacks]}
           : ks \in InjectiveSeqs({"h1", "h2"}, 2)}

\* The class bodies of S: nothing, or one of h1 and g, marked or not.
SubBodies ==
    UNION {{[i \in 1..Len(ks) |-> Def(ks[i], st[i])] : st \in [1..Len(ks) -> DecoratorStacks]}
           : ks \in InjectiveSeqs({"h1", "g"}, 1)}

\* class name(base, interface=...) with a body of the set bodies.
DefineNamed(name, base, bodies, interface) ==
    /\ base \in DOMAIN classes
    /\ name \notin DOMAIN classes
    /\ name \notin defError
    /\ \E attrs \in bodies :
         LET r == ClassStatement(classes, base, attrs, interface) IN
         /\ classes' = IF r.raised THEN classes ELSE (name :> r.class) @@ classes
         /\ defError' = IF r.raised THEN defError \cup {name} ELSE defError
         /\ outcome' = IF r.raised THEN "raised" ELSE "returned"
         /\ lastOp' = [op |-> "class", name |-> name, attrs |-> attrs, interface |-> interface]
         /\ declared' = IF r.raised THEN declared ELSE (name :> attrs) @@ declared
    /\ UNCHANGED <<calls, component_data, relations, initializers, dispatched, world,
                   instances, attacks>>

RECURSIVE ClassAttrOwner(_, _, _)
\* The class in whose own namespace a lookup of name on cls ends.
ClassAttrOwner(table, cls, name) ==
    IF cls = "object" THEN "object"
    ELSE IF name \in Range(table[cls].dict) THEN cls
    ELSE ClassAttrOwner(table, table[cls].base, name)

\* cls.adapt(entity).handle_event(event) for a class of the set targets:
\* self.event_handlers is looked up on the class and along its bases.
HandleEventOn(targets) ==
    /\ dispatched < MaxDispatches
    /\ \E cls \in targets \cap DOMAIN classes, kind \in DispatchKinds :
         LET owner == ClassAttrOwner(classes, cls, "event_handlers")
             r == handle_event(classes[owner].event_handlers, kind, {})
         IN
         /\ classes' = [classes EXCEPT ![owner].event_handlers = r.event_handlers]
         /\ calls' = r.calls
         /\ outcome' = IF r.raised THEN "raised" ELSE "returned"
         /\ lastOp' = [op |-> "handle_event", cls |-> cls, event |-> kind, bad |-> {}]
    /\ dispatched' = dispatched + 1
    /\ UNCHANGED <<defError, component_data, relations, initializers, declared, world,
                   instances, attacks>>

(***************************************************************************)
(* Entities, their types and relations (flax.entity, flax.relation).       *)
(***************************************************************************)
Entities == {"E1", "E2", "E3", "E4", "E5", "E6"}

\* Mutant: the storage key is the attribute's name alone.
AttrByName(iface, name) == [iface |-> "", name |-> name]

AttrOf(iface, name) == [iface |-> iface, name |-> name]

EntityType ==
    [E1 |-> "player", E2 |-> "armor", E3 |-> "amulet",
     E4 |-> "newt", E5 |-> "wall", E6 |-> "floor"]

TypeModifiers ==
    [player |-> <<>>, newt |-> <<>>, wall |-> <<>>, floor |-> <<>>,
     armor  |-> <<[attr |-> AttrOf("ICombatant", "strength"), op |-> "add", n |-> 5]>>,
     amulet |-> <<[attr |-> AttrOf("ICombatant", "strength"), op |-> "mul", n |-> 2],
                  [attr |-> AttrOf("ICombatant", "health"), op |-> "add", n |-> 1],
                  [attr |-> AttrOf("ICombatant", "strength"), op |-> "add", n |-> 1]>>]

\* mod.modify(attr, value)
modify(mod, attr, value) ==
    IF mod.attr # attr THEN value
    ELSE IF mod.op = "add" THEN value + mod.n ELSE value * mod.n

RelationKinds == {"Wears", "Holds"}

EmptyData == [a \in {} |-> 0]

\* The relations alive: every relation found in some entity's table.
Alive == UNION {UNION {Range(t.rels) : t \in Range(relations[e])} : e \in Entities}

\* entity.relations[reltype].add(relation): the key is added last when it
\* is new; the relation takes position i of the collection.
AddRelation(table, relation, i) ==
    IF \E j \in 1..Len(table) : table[j].reltype = relation.reltype
    THEN [j \in 1..Len(table) |->
            IF table[j].reltype = relation.reltype
            THEN [table[j] EXCEPT !.rels = InsertAt(@, IF i > Len(@) THEN Len(@) + 1 ELSE i, relation)]
            ELSE table[j]]
    ELSE Append(table, [reltype |-> relation.reltype, rels |-> <<relation>>])

\* entity.relations[reltype].remove(relation)
DropRelation(table, relation) ==
    [j \in 1..Len(table) |->
        [table[j] EXCEPT !.rels = SelectSeq(@, LAMBDA r : r # relation)]]

(***************************************************************************)
(* ComponentAttribute: the descriptor of one static attribute.             *)
(***************************************************************************)
RECURSIVE ApplyModifiers(_, _, _)
\* for mod in relation.to_entity.type.modifiers: value = mod.modify(attr, value)
ApplyModifiers(mods, attr, value) ==
    IF mods = <<>> THEN value
    ELSE ApplyModifiers(Tail(mods), attr, modify(Head(mods), attr, value))

RECURSIVE ApplyRelationsNoSkip(_, _, _, _)
\* Mutant: the relations whose to_entity is the entity are not skipped.
ApplyRelationsNoSkip(rels, entity, attr, value) ==
    IF rels = <<>> THEN value
    ELSE ApplyRelationsNoSkip(Tail(rels), entity, attr,
                              ApplyModifiers(TypeModifiers[EntityType[Head(rels).to_entity]],
                                             attr, value))

RECURSIVE ApplyRelations(_, _, _, _)
\* for relation in relations: skip the relations whose to_entity is the entity.
ApplyRelations(rels, entity, attr, value) ==
    IF rels = <<>> THEN value
    ELSE LET r == Head(rels) IN
         IF r.to_entity = entity
         THEN ApplyRelations(Tail(rels), entity, attr, value)
         ELSE ApplyRelations(Tail(rels), entity, attr,
                             ApplyModifiers(TypeModifiers[EntityType[r.to_entity]], attr, value))

RECURSIVE ApplyTable(_, _, _, _)
\* for reltype, relations in self.entity.relations.items()
ApplyTable(table, entity, attr, value) ==
    IF table = <<>> THEN value
    ELSE ApplyTable(Tail(table), entity, attr,
                    ApplyRelations(Head(table).rels, entity, attr, value))

\* ComponentAttribute.__get__ on an instance over entity: KeyError when the
\* attribute was never stored.
ComponentAttribute_get(data, table, entity, attr) ==
    IF attr \notin DOMAIN data THEN [raised |-> TRUE]
    ELSE [raised |-> FALSE, value |-> ApplyTable(table, entity, attr, data[attr])]

\* Mutant: the value is stored only when the attribute has none yet.
ComponentAttribute_setdefault(data, attr, value) ==
    [a \in (DOMAIN data) \cup {attr} |-> IF a \in DOMAIN data THEN data[a] ELSE value]

\* ComponentAttribute.__set__: data[attr] = value
ComponentAttribute_set(data, attr, value) ==
    [a \in (DOMAIN data) \cup {attr} |-> IF a = attr THEN value ELSE data[a]]

(***************************************************************************)
(* Deferred construction: calling a component class, and init_entity.      *)
(***************************************************************************)
RECURSIVE InitOwner(_, _)
\* The class whose __init__ a lookup on cls finds ("object" when none has one).
InitOwner(table, cls) ==
    IF cls = "object" THEN "object"
    ELSE IF "__init__" \in Range(table[cls].dict) THEN cls
    ELSE InitOwner(table, table[cls].base)

\* The keyword-only parameters of each __init__.
InitParams(owner) ==
    CASE owner = "Combatant" -> {"health", "strength"}
      [] owner = "Portal" -> {"destination"}
      [] owner \in {"V1", "V2"} -> {"value"}
      [] OTHER -> {}

\* Mutant: Combatant.__init__ stores its two arguments the wrong way round.
InitBodySwapped(owner, kwargs) ==
    CASE owner = "Combatant" -> <<[name |-> "health", value |-> kwargs.strength],
                                  [name |-> "strength", value |-> kwargs.health]>>
      [] owner = "Portal" -> <<[name |-> "destination", value |-> kwargs.destination]>>
      [] owner = "Container" -> <<[name |-> "inventory", value |-> <<>>]>>
      [] owner \in {"V1", "V2"} -> <<[name |-> "value", value |-> kwargs.value]>>
      [] OTHER -> <<>>

\* The attribute writes of each __init__ body, in order.
InitBody(owner, kwargs) ==
    CASE owner = "Combatant" -> <<[name |-> "health", value |-> kwargs.health],
                                  [name |-> "strength", value |-> kwargs.strength]>>
      [] owner = "Portal" -> <<[name |-> "destination", value |-> kwargs.destination]>>
      [] owner = "Container" -> <<[name |-> "inventory", value |-> <<>>]>>
      [] owner \in {"V1", "V2"} -> <<[name |-> "value", value |-> kwargs.value]>>
      [] OTHER -> <<>>

RECURSIVE WriteAll(_, _, _)
\* self.<name> = value for each write, through the descriptors of iface.
WriteAll(data, iface, writes) ==
    IF writes = <<>> THEN data
    ELSE WriteAll(ComponentAttribute_set(data, AttrOf(iface, Head(writes).name),
                                         Head(writes).value),
                  iface, Tail(writes))

\* ComponentMeta.init_entity(cls, entity, **kwargs) on the entity's storage:
\* TypeError when kwargs are not the parameters of __init__.
ComponentMeta_init_entity(table, cls, data, kwargs) ==
    LET owner == InitOwner(table, cls) IN
    IF DOMAIN kwargs # InitParams(owner) THEN [raised |-> TRUE, data |-> data]
    ELSE [raised |-> FALSE,
          data |-> WriteAll(data, table[cls].interface, InitBody(owner, kwargs))]

NoArgs == [x \in {} |-> 0]

\* Mutant: calling the class runs __init__ on entity E1 at once.
CaptureEager(args) ==
    /\ \E c \in args :
         /\ c \in initializers \/ Cardinality(initializers) < MaxInitializers
         /\ initializers' = initializers \cup {c}
         /\ lastOp' = [op |-> "call", component |-> c.component, kwargs |-> c.kwargs]
         /\ component_data' =
               [component_data EXCEPT
                  !["E1"] = ComponentMeta_init_entity(classes, c.component, @, c.kwargs).data]
    /\ outcome' = "returned"
    /\ UNCHANGED <<classes, defError, calls, relations, dispatched, declared, world, instances, attacks>>

\* ComponentMeta.__call__: Cls(**kwargs), for a call of the set args, returns
\* a ComponentInitializer.
Capture(args) ==
    /\ \E c \in args :
         /\ c \in initializers \/ Cardinality(initializers) < MaxInitializers
         /\ initializers' = initializers \cup {c}
         /\ lastOp' = [op |-> "call", component |-> c.component, kwargs |-> c.kwargs]
    /\ outcome' = "returned"
    /\ UNCHANGED <<classes, defError, calls, component_data, relations, dispatched, declared, world, instances, attacks>>

\* ComponentInitializer.init_entity(entity), for an entity of the set ents.
InitEntity(ents) ==
    /\ \E c \in initializers, e \in ents :
         LET r == ComponentMeta_init_entity(classes, c.component, component_data[e], c.kwargs) IN
         /\ component_data' = [component_data EXCEPT ![e] = r.data]
         /\ outcome' = IF r.raised THEN "raised" ELSE "returned"
         /\ lastOp' = [op |-> "init_entity", component |-> c.component,
                       kwargs |-> c.kwargs, entity |-> e]
    /\ UNCHANGED <<classes, defError, calls, relations, initializers, dispatched, declared, world, instances, attacks>>

(***************************************************************************)
(* Attribute access through a component instance Cls.adapt(entity); views  *)
(* is the set of [cls, entity] pairs adapted.                              *)
(***************************************************************************)
\* Cls.adapt(entity).<name> = value
SetAttr(views, values) ==
    /\ \E w \in views, v \in values :
       \E name \in classes[w.cls].descriptors :
         LET attr == AttrOf(classes[w.cls].interface, name) IN
         /\ component_data' = [component_data EXCEPT
                                 ![w.entity] = ComponentAttribute_set(@, attr, v)]
         /\ lastOp' = [op |-> "set", cls |-> w.cls, entity |-> w.entity,
                       attr |-> attr, written |-> v]
    /\ outcome' = "returned"
    /\ UNCHANGED <<classes, defError, calls, relations, initializers, dispatched, declared, world, instances, attacks>>

\* Cls.adapt(entity).<name>
GetAttr(views) ==
    /\ \E w \in views :
       \E name \in classes[w.cls].descriptors :
         LET attr == AttrOf(classes[w.cls].interface, name)
             r == ComponentAttribute_get(component_data[w.entity], relations[w.entity],
                                         w.entity, attr)
         IN
         /\ outcome' = IF r.raised THEN "raised" ELSE "returned"
         /\ lastOp' = IF r.raised
                      THEN [op |-> "get", cls |-> w.cls, entity |-> w.entity, attr |-> attr]
                      ELSE [op |-> "get", cls |-> w.cls, entity |-> w.entity, attr |-> attr,
                            read |-> r.value]
    /\ UNCHANGED <<classes, defError, calls, component_data, relations, initializers, dispatched, declared, world, instances, attacks>>

(***************************************************************************)
(* Component instances.  An instance is [cls, entity, dict]: its class, the *)
(* entity Component.__new__ stores on it, and whatever else its own         *)
(* __dict__ holds.  An attribute of the instance is set and read through    *)
(* the ComponentAttribute found on its class or a base of it, if any.       *)
(***************************************************************************)
EmptyDict == [a \in {} |-> 0]

\* Component.__new__(cls, entity)
Component_new(cls, entity) == [cls |-> cls, entity |-> entity, dict |-> EmptyDict]

\* ComponentMeta.adapt(cls, entity)
ComponentMeta_adapt(cls, entity) == Component_new(cls, entity)

RECURSIVE DescriptorOwner(_, _, _)
\* The class, cls or the nearest base of it, that has a ComponentAttribute
\* called name; "object" when none has.
DescriptorOwner(table, cls, name) ==
    IF cls = "object" THEN "object"
    ELSE IF name \in table[cls].descriptors THEN cls
    ELSE DescriptorOwner(table, table[cls].base, name)

\* Mutant: the value is kept on the instance.
Instance_setattr_local(table, inst, data, name, value) ==
    [inst |-> [inst EXCEPT !.dict = (name :> value) @@ @], data |-> data]

\* inst.<name> = value: the instance and the storage of its entity after it.
Instance_setattr(table, inst, data, name, value) ==
    LET owner == DescriptorOwner(table, inst.cls, name) IN
    IF owner # "object"
    THEN [inst |-> inst,
          data |-> ComponentAttribute_set(data, AttrOf(table[owner].interface, name), value)]
    ELSE [inst |-> [inst EXCEPT !.dict = (name :> value) @@ @], data |-> data]

\* inst.<name>
Instance_getattr(table, inst, data, rel, name) ==
    LET owner == DescriptorOwner(table, inst.cls, name) IN
    IF owner # "object"
    THEN ComponentAttribute_get(data[inst.entity], rel[inst.entity], inst.entity,
                                AttrOf(table[owner].interface, name))
    ELSE IF name \in DOMAIN inst.dict THEN [raised |-> FALSE, value |-> inst.dict[name]]
    ELSE [raised |-> TRUE]

\* The stored attributes an instance of cls has.
StoredNames(table, cls) == StaticNames(table[cls].interface)

\* Cls.adapt(entity), for a [cls, entity] of the set views.
AdaptView(views) ==
    /\ Len(instances) < MaxInstances
    /\ \E w \in views :
         /\ instances' = Append(instances, ComponentMeta_adapt(w.cls, w.entity))
         /\ lastOp' = [op |-> "adapt", cls |-> w.cls, entity |-> w.entity]
    /\ outcome' = "returned"
    /\ UNCHANGED <<classes, defError, calls, component_data, relations, initializers,
                   dispatched, declared, world, attacks>>

\* inst.<name> = value through one of the instances adapted.
SetThrough(values) ==
    /\ \E n \in 1..Len(instances), v \in values :
       \E name \in StoredNames(classes, instances[n].cls) :
         LET inst == instances[n]
             r == Instance_setattr(classes, inst, component_data[inst.entity], name, v)
         IN  /\ instances' = [instances EXCEPT ![n] = r.inst]
             /\ component_data' = [component_data EXCEPT ![inst.entity] = r.data]
             /\ lastOp' = [op |-> "iset", instance |-> n, name |-> name, written |-> v]
    /\ outcome' = "returned"
    /\ UNCHANGED <<classes, defError, calls, relations, initializers, dispatched, declared,
                   world, attacks>>

\* inst.<name> through one of the instances adapted.
GetThrough ==
    /\ \E n \in 1..Len(instances) :
       \E name \in StoredNames(classes, instances[n].cls) :
         LET r == Instance_getattr(classes, instances[n], component_data, relations, name) IN
         /\ outcome' = IF r.raised THEN "raised" ELSE "returned"
         /\ lastOp' = IF r.raised THEN [op |-> "iget", instance |-> n, name |-> name]
                      ELSE [op |-> "iget", instance |-> n, name |-> name, read |-> r.value]
    /\ UNCHANGED <<classes, defError, calls, component_data, relations, initializers,
                   dispatched, declared, world, instances, attacks>>

(***************************************************************************)
(* Relations: creating one files it under its kind in the tables of both   *)
(* entities; destroying it removes it from both.                           *)
(***************************************************************************)
FreeIds == (1..MaxRelations) \ {r.id : r \in Alive}

\* Kind(from, to), for a [reltype, from_entity, to_entity] of the set shapes.
CreateRelation(shapes) ==
    /\ FreeIds # {}
    /\ \E s \in shapes, i, j \in 1..MaxRelations :
         LET r == [id |-> CHOOSE n \in FreeIds : \A m \in FreeIds : n <= m,
                   reltype |-> s.reltype, from_entity |-> s.from_entity,
                   to_entity |-> s.to_entity]
         IN
         /\ relations' = [relations EXCEPT ![s.from_entity] = AddRelation(@, r, i),
                                           ![s.to_entity] = AddRelation(@, r, j)]
         /\ lastOp' = [op |-> "relate", relation |-> r]
    /\ outcome' = "returned"
    /\ UNCHANGED <<classes, defError, calls, component_data, initializers, dispatched, declared, world, instances, attacks>>

\* relation.destroy()
DestroyRelation ==
    /\ \E r \in Alive :
         /\ relations' = [relations EXCEPT ![r.from_entity] = DropRelation(@, r),
                                           ![r.to_entity] = DropRelation(@, r)]
         /\ lastOp' = [op |-> "destroy", relation |-> r]
    /\ outcome' = "returned"
    /\ UNCHANGED <<classes, defError, calls, component_data, initializers, dispatched, declared, world, instances, attacks>>

(***************************************************************************)
(* The world (flax.world): the scheduler's queue of events, first to be     *)
(* processed first, and the current map: the entities on it and their       *)
(* positions.  An event is [origin, kind, actor, target, amount]; origin is *)
(* the number of the event the driver queued that led to it (history).      *)
(***************************************************************************)
Event(kind, actor, target, amount) ==
    [origin |-> 0, kind |-> kind, actor |-> actor, target |-> target, amount |-> amount]

Walk(actor, target) == Event("Walk", actor, target, 0)
MeleeAttack(actor, target) == Event("MeleeAttack", actor, target, 0)
Damage(target, amount) == Event("Damage", "none", target, amount)
Die(target) == Event("Die", "none", target, 0)
Equip(actor, target) == Event("Equip", actor, target, 0)
Unequip(actor, target) == Event("Unequip", actor, target, 0)

\* The components of each entity type, in the order they are given events.
TypeComponents ==
    [player |-> <<"Solid", "Combatant">>,
     newt   |-> <<"Solid", "Combatant">>,
     armor  |-> <<"Empty", "Portable", "Equipment">>,
     amulet |-> <<"Empty", "Portable", "Equipment">>,
     wall   |-> <<"Solid">>,
     floor  |-> <<"Empty">>]

StartPosition == [E1 |-> 1, E2 |-> 2, E3 |-> 3, E4 |-> 4, E5 |-> 5, E6 |-> 6]

World0 == [queue |-> <<>>, map |-> Entities, position |-> StartPosition, made |-> 0]

\* world.queue_event(event)
queue_event(w, event) == [w EXCEPT !.queue = Append(@, event)]

\* world.queue_immediate_event(event)
queue_immediate_event(w, event) == [w EXCEPT !.queue = <<event>> \o @]

\* world.current_map.move(entity, position)
move(w, entity, position) == [w EXCEPT !.position[entity] = position]

\* world.current_map.remove(entity)
remove(w, entity) == [w EXCEPT !.map = @ \ {entity}]

\* IFoo(entity): the component class of the entity's type that implements
\* the interface, "none" when the type has no such component.
Adapt(table, iface, entity) ==
    LET cs == TypeComponents[EntityType[entity]]
        found == {n \in 1..Len(cs) : table[cs[n]].interface = iface}
    IN  IF found = {} THEN "none" ELSE cs[CHOOSE n \in found : \A m \in found : n <= m]

(***************************************************************************)
(* The event handlers of the module's components.  Each takes the state st *)
(* it runs in, [classes, data, relations, world, cancelled, raised, calls], *)
(* the class cls and the entity self of the instance, and the event, and   *)
(* gives the state it leaves.  ch holds what the code leaves open: the      *)
(* places i and j a new relation takes in the two collections it joins,    *)
(* and whether removing an entity that is not on the map fails (strict).   *)
(***************************************************************************)
Raise(st) == [st EXCEPT !.raised = TRUE]

\* self.<name> on an instance of cls over entity self.
ReadAttr(st, cls, self, name) ==
    ComponentAttribute_get(st.data[self], st.relations[self], self,
                           AttrOf(st.classes[cls].interface, name))

\* Solid.handle_walk
Solid_handle_walk(st, cls, self, event, ch) == [st EXCEPT !.cancelled = TRUE]

\* Mutant: Empty.handle_walk cancels the event after the move.
Empty_handle_walk_cancel(st, cls, self, event, ch) ==
    [st EXCEPT !.world = move(@, event.actor, @.position[event.target]),
               !.cancelled = TRUE]

\* Empty.handle_walk
Empty_handle_walk(st, cls, self, event, ch) ==
    [st EXCEPT !.world = move(@, event.actor, @.position[event.target])]

\* Mutant: Die is queued only when the health has gone below zero.
Combatant_handle_damage_below(st, cls, self, event, ch) ==
    LET old == ReadAttr(st, cls, self, "health") IN
    IF old.raised THEN Raise(st)
    ELSE LET written == [st EXCEPT !.data[self] =
                            ComponentAttribute_set(@, AttrOf(st.classes[cls].interface, "health"),
                                                   old.value - event.amount)]
             new == ReadAttr(written, cls, self, "health")
         IN  IF new.value < 0
             THEN [written EXCEPT !.world =
                      queue_immediate_event(@, [Die(self) EXCEPT !.origin = event.origin])]
             ELSE written

\* Combatant.handle_damage: self.health -= event.amount reads health through
\* the descriptor and writes the difference; the test reads it again.
Combatant_handle_damage(st, cls, self, event, ch) ==
    LET old == ReadAttr(st, cls, self, "health") IN
    IF old.raised THEN Raise(st)
    ELSE LET written == [st EXCEPT !.data[self] =
                            ComponentAttribute_set(@, AttrOf(st.classes[cls].interface, "health"),
                                                   old.value - event.amount)]
             new == ReadAttr(written, cls, self, "health")
         IN  IF new.value <= 0
             THEN [written EXCEPT !.world =
                      queue_immediate_event(@, [Die(self) EXCEPT !.origin = event.origin])]
             ELSE written

\* Mutant: the Damage is put at the end of the queue.
Combatant_handle_attack_queued(st, cls, self, event, ch) ==
    LET opponent == Adapt(st.classes, "ICombatant", event.actor) IN
    IF opponent = "none" THEN Raise(st)
    ELSE LET strength == ReadAttr(st, opponent, event.actor, "strength") IN
         IF strength.raised THEN Raise(st)
         ELSE [st EXCEPT !.world =
                  queue_event(@, [Damage(self, strength.value) EXCEPT !.origin = event.origin])]

\* Combatant.handle_attack
Combatant_handle_attack(st, cls, self, event, ch) ==
    LET opponent == Adapt(st.classes, "ICombatant", event.actor) IN
    IF opponent = "none" THEN Raise(st)
    ELSE LET strength == ReadAttr(st, opponent, event.actor, "strength") IN
         IF strength.raised THEN Raise(st)
         ELSE [st EXCEPT !.world =
                  queue_immediate_event(@, [Damage(self, strength.value)
                                               EXCEPT !.origin = event.origin])]

\* Combatant.handle_death
Combatant_handle_death(st, cls, self, event, ch) ==
    IF self \notin st.world.map /\ ch.strict THEN Raise(st)
    ELSE [st EXCEPT !.world = remove(@, self)]

\* The relations alive in the tables rel, and the identities free for a new one.
AliveIn(rel) == UNION {UNION {Range(t.rels) : t \in Range(rel[e])} : e \in Entities}

FreeIdsIn(rel) == (1..MaxRelations) \ {r.id : r \in AliveIn(rel)}

\* relation.destroy() on the tables rel.
destroy(rel, r) ==
    [rel EXCEPT ![r.from_entity] = DropRelation(@, r), ![r.to_entity] = DropRelation(@, r)]

RECURSIVE DestroyAll(_, _)
\* for relation in rels: relation.destroy()
DestroyAll(rel, rels) ==
    IF rels = <<>> THEN rel ELSE DestroyAll(destroy(rel, Head(rels)), Tail(rels))

\* entity.relations[kind]: a kind the table lacks is added with no relations.
TouchKind(table, kind) ==
    IF \E j \in 1..Len(table) : table[j].reltype = kind THEN table
    ELSE Append(table, [reltype |-> kind, rels |-> <<>>])

\* The relations filed under kind in a table.
OfKind(table, kind) ==
    IF \E j \in 1..Len(table) : table[j].reltype = kind
    THEN table[CHOOSE j \in 1..Len(table) : table[j].reltype = kind].rels
    ELSE <<>>

\* Equipment.handle_equip: Wears(event.actor, self.entity)
Equipment_handle_equip(st, cls, self, event, ch) ==
    LET r == [id |-> CHOOSE n \in FreeIdsIn(st.relations) :
                        \A m \in FreeIdsIn(st.relations) : n <= m,
              reltype |-> "Wears", from_entity |-> event.actor, to_entity |-> self]
    IN  [st EXCEPT !.relations =
            [st.relations EXCEPT ![event.actor] = AddRelation(@, r, ch.i),
                                 ![self] = AddRelation(@, r, ch.j)]]

\* Mutant: only the relations that start at the equipment are destroyed.
Equipment_handle_unequip_outgoing(st, cls, self, event, ch) ==
    LET touched == [st.relations EXCEPT ![self] = TouchKind(@, "Wears")] IN
    [st EXCEPT !.relations =
        DestroyAll(touched, SelectSeq(OfKind(touched[self], "Wears"),
                                      LAMBDA r : r.from_entity = self))]

\* Equipment.handle_unequip: every relation of self.entity.relations[Wears]
\* is destroyed.
Equipment_handle_unequip(st, cls, self, event, ch) ==
    LET touched == [st.relations EXCEPT ![self] = TouchKind(@, "Wears")] IN
    [st EXCEPT !.relations = DestroyAll(touched, OfKind(touched[self], "Wears"))]

\* The call handler(self, event) of the handler function called name that
\* the class cls registered.
RunHandler(st, cls, name, self, event, ch) ==
    CASE cls = "Solid" /\ name = "handle_walk" -> Solid_handle_walk(st, cls, self, event, ch)
      [] cls = "Empty" /\ name = "handle_walk" -> Empty_handle_walk(st, cls, self, event, ch)
      [] cls = "Combatant" /\ name = "handle_damage" ->
            Combatant_handle_damage(st, cls, self, event, ch)
      [] cls = "Combatant" /\ name = "handle_attack" ->
            Combatant_handle_attack(st, cls, self, event, ch)
      [] cls = "Combatant" /\ name = "handle_death" ->
            Combatant_handle_death(st, cls, self, event, ch)
      [] cls = "Equipment" /\ name = "handle_equip" ->
            Equipment_handle_equip(st, cls, self, event, ch)
      [] cls = "Equipment" /\ name = "handle_unequip" ->
            Equipment_handle_unequip(st, cls, self, event, ch)

RECURSIVE RunCalls(_, _, _, _, _, _)
\* The calls of one handle_event, in order, up to the first that raises.
RunCalls(st, cls, names, self, event, ch) ==
    IF names = <<>> \/ st.raised THEN st
    ELSE RunCalls([RunHandler(st, cls, Head(names), self, event, ch)
                      EXCEPT !.calls = Append(st.calls, Head(names))],
                  cls, Tail(names), self, event, ch)

\* cls.adapt(self).handle_event(event) in state st: the handlers found along
\* the event's __mro__ in self.event_handlers are called in order; the
\* lookups leave their keys in the registry, up to a call that raises.
Component_handle_event(st, cls, self, event, ch) ==
    LET owner == ClassAttrOwner(st.classes, cls, "event_handlers")
        registry == st.classes[owner].event_handlers
        ran == RunCalls(st, cls, handle_event(registry, event.kind, {}).calls, self, event, ch)
        failed == IF ran.raised THEN {ran.calls[Len(ran.calls)]} ELSE {}
    IN  [ran EXCEPT !.classes[owner].event_handlers =
                        handle_event(registry, event.kind, failed).event_handlers]

RECURSIVE DeliverTo(_, _, _, _, _)
\* The event is handed to each component of its target in turn.
DeliverTo(st, components, self, event, ch) ==
    IF components = <<>> \/ st.raised THEN st
    ELSE DeliverTo(Component_handle_event(st, Head(components), self, event, ch),
                   Tail(components), self, event, ch)

\* The state a delivery starts in.
Current ==
    [classes |-> classes, data |-> component_data, relations |-> relations,
     world |-> world, cancelled |-> FALSE, raised |-> FALSE, calls |-> <<>>]

Choices == [i : 1..MaxRelations, j : 1..MaxRelations, strict : BOOLEAN]

\* The choices an event of the given kind leaves open.
ChoicesFor(kind) ==
    {ch \in Choices : /\ kind # "Equip" => ch.i = 1 /\ ch.j = 1
                      /\ kind # "Die" => ~ch.strict}

\* The driver hands an event of the set events to its target.
Deliver(events) ==
    /\ \E event \in events :
       \E ch \in ChoicesFor(event.kind) :
         /\ event.kind = "Equip" => FreeIds # {}
         /\ LET st == DeliverTo(Current, TypeComponents[EntityType[event.target]],
                                event.target, event, ch)
            IN  /\ classes' = st.classes
                /\ component_data' = st.data
                /\ relations' = st.relations
                /\ world' = st.world
                /\ calls' = st.calls
                /\ outcome' = IF st.raised THEN "raised" ELSE "returned"
                /\ lastOp' = [op |-> "deliver", event |-> event, cancelled |-> st.cancelled]
    /\ UNCHANGED <<defError, initializers, dispatched, declared, instances, attacks>>

\* world.queue_event(event), for an event of the set events.
QueueEvent(events) ==
    /\ world.made < MaxEvents
    /\ \E event \in events :
         /\ world' = [queue_event(world, [event EXCEPT !.origin = world.made + 1])
                         EXCEPT !.made = @ + 1]
         /\ lastOp' = [op |-> "queue", event |-> [event EXCEPT !.origin = world.made + 1]]
    /\ outcome' = "returned"
    /\ UNCHANGED <<classes, defError, calls, component_data, relations, initializers,
                   dispatched, declared, instances, attacks>>

\* The record of the attacks once event, taken from before the events behind,
\* has been handled and left the state st: a MeleeAttack is entered; a Damage
\* that an attack led to and that leaves its target's health at or below zero
\* marks that attack deadly.
Recorded(event, behind, st) ==
    CASE event.kind = "MeleeAttack" ->
            (event.origin :> [target |-> event.target,
                              behind |-> {behind[n].origin : n \in 1..Len(behind)},
                              deadly |-> FALSE]) @@ attacks
      [] event.kind = "Damage" /\ event.origin \in DOMAIN attacks /\ ~st.raised ->
            [attacks EXCEPT ![event.origin].deadly =
                ReadAttr(st, "Combatant", event.target, "health").value <= 0]
      [] OTHER -> attacks

\* The driver takes the first event of the queue and hands it to its target.
ProcessNext ==
    /\ world.queue # <<>>
    /\ \E ch \in ChoicesFor(Head(world.queue).kind) :
         LET event == Head(world.queue)
             st == DeliverTo([Current EXCEPT !.world.queue = Tail(@)],
                             TypeComponents[EntityType[event.target]],
                             event.target, event, ch)
         IN  /\ event.kind = "Equip" => FreeIds # {}
             /\ classes' = st.classes
             /\ component_data' = st.data
             /\ relations' = st.relations
             /\ world' = st.world
             /\ calls' = st.calls
             /\ outcome' = IF st.raised THEN "raised" ELSE "returned"
             /\ lastOp' = [op |-> "process", event |-> event, cancelled |-> st.cancelled,
                           behind |-> Tail(world.queue)]
             /\ attacks' = Recorded(event, Tail(world.queue), st)
    /\ UNCHANGED <<defError, initializers, dispatched, declared, instances>>

(***************************************************************************)
(* Specifications.  Init is the state once the module is imported: its     *)
(* classes defined, the entities fresh.                                    *)
(***************************************************************************)
Init ==
    /\ classes = ClassTable
    /\ defError = {}
    /\ calls = <<>>
    /\ outcome = "none"
    /\ lastOp = NoOp
    /\ component_data = [e \in Entities |-> EmptyData]
    /\ relations = [e \in Entities |-> <<>>]
    /\ initializers = {}
    /\ dispatched = 0
    /\ declared = <<>>
    /\ world = World0
    /\ instances = <<>>
    /\ attacks = <<>>

\* SpecClass: the definition of a further class, and dispatch to it.
NextClass == DefineClass \/ HandleEvent

SpecClass == Init /\ [][NextClass]_vars

\* Spec: attribute writes and reads through views of E1, while E1 puts on
\* and takes off the armor E2.
Wear(from, to) == [reltype |-> "Wears", from_entity |-> from, to_entity |-> to]
Hold(from, to) == [reltype |-> "Holds", from_entity |-> from, to_entity |-> to]

AttrViews ==
    {[cls |-> "V1", entity |-> "E1"], [cls |-> "V2", entity |-> "E1"],
     [cls |-> "Combatant", entity |-> "E1"]}

SetValues == {0, 7}

Next ==
    \/ SetAttr(AttrViews, SetValues)
    \/ GetAttr(AttrViews)
    \/ CreateRelation({Wear("E1", "E2")})
    \/ DestroyRelation

Spec == Init /\ [][Next]_vars

\* SpecInit: deferred construction of the components of E1 and E2.
CaptureArgs ==
    {[component |-> "Combatant", kwargs |-> [health |-> 10, strength |-> 3]],
     [component |-> "Combatant", kwargs |-> [health |-> 10]],
     [component |-> "Container", kwargs |-> NoArgs],
     [component |-> "PortalDownstairs", kwargs |-> [destination |-> "cave"]]}

NextInit ==
    \/ Capture(CaptureArgs)
    \/ InitEntity({"E1", "E2"})
    \/ CreateRelation({Wear("E1", "E2")})

SpecInit == Init /\ [][NextInit]_vars

\* SpecChain: entities E1 and E2 are combatants of health 10 and strength 3;
\* relations of both kinds come and go between the three entities.
StartData ==
    ComponentMeta_init_entity(ClassTable, "Combatant", EmptyData,
                              [health |-> 10, strength |-> 3]).data

InitChain ==
    /\ classes = ClassTable
    /\ defError = {}
    /\ calls = <<>>
    /\ outcome = "none"
    /\ lastOp = NoOp
    /\ component_data = [e \in Entities |-> IF e = "E3" THEN EmptyData ELSE StartData]
    /\ relations = [e \in Entities |-> <<>>]
    /\ initializers = {}
    /\ dispatched = 0
    /\ declared = <<>>
    /\ world = World0
    /\ instances = <<>>
    /\ attacks = <<>>

ChainShapes ==
    {Wear("E1", "E2"), Wear("E1", "E3"), Hold("E1", "E3"), Hold("E2", "E1")}

ChainViews == {[cls |-> "Combatant", entity |-> "E1"], [cls |-> "Combatant", entity |-> "E2"]}

NextChain ==
    \/ CreateRelation(ChainShapes)
    \/ DestroyRelation
    \/ GetAttr(ChainViews)

SpecChain == InitChain /\ [][NextChain]_vars

\* The game: the player E1 is a combatant of health 10 and strength 3, the
\* newt E4 one of strength 2 and of health 10 or 2; E2 is the armor, E3 the
\* amulet, E5 a wall and E6 a floor tile.
StartHealth == {10, 2}

GameData(h) ==
    [e \in Entities |->
        CASE e = "E1" -> StartData
          [] e = "E4" -> ComponentMeta_init_entity(ClassTable, "Combatant", EmptyData,
                                                   [health |-> h, strength |-> 2]).data
          [] OTHER -> EmptyData]

InitGame ==
    /\ classes = ClassTable
    /\ defError = {}
    /\ calls = <<>>
    /\ outcome = "none"
    /\ lastOp = NoOp
    /\ component_data \in {GameData(h) : h \in StartHealth}
    /\ relations = [e \in Entities |-> <<>>]
    /\ initializers = {}
    /\ dispatched = 0
    /\ declared = <<>>
    /\ world = World0
    /\ instances = <<>>
    /\ attacks = <<>>

\* SpecView: the player E1, a combatant of health 10 and strength 3 who wears
\* the armor E2, is adapted through Combatant and through the three portal
\* classes, and attributes are written and read through the instances.
WornArmor == [id |-> 1] @@ Wear("E1", "E2")

InitView ==
    /\ classes = ClassTable
    /\ defError = {}
    /\ calls = <<>>
    /\ outcome = "none"
    /\ lastOp = NoOp
    /\ component_data = [e \in Entities |-> IF e = "E1" THEN StartData ELSE EmptyData]
    /\ relations = [e \in Entities |->
                       IF e \in {"E1", "E2"} THEN AddRelation(<<>>, WornArmor, 1) ELSE <<>>]
    /\ initializers = {}
    /\ dispatched = 0
    /\ declared = <<>>
    /\ world = World0
    /\ instances = <<>>
    /\ attacks = <<>>

Views ==
    {[cls |-> c, entity |-> "E1"] : c \in {"Combatant", "Portal", "PortalDownstairs"}}

NextView == AdaptView(Views) \/ SetThrough(SetValues) \/ GetThrough

SpecView == InitView /\ [][NextView]_vars

\* SpecSub: a class T, a subclass S of it, and dispatch to both.
NextSub ==
    \/ DefineNamed("T", "Component", ParentBodies, "I1")
    \/ DefineNamed("S", "T", SubBodies, "None")
    \/ HandleEventOn({"T", "S"})

SpecSub == Init /\ [][NextSub]_vars

\* SpecWalk: the player and the newt walk onto the other entities.
WalkEvents == {Walk(a, t) : a \in {"E1", "E4"}, t \in Entities}

NextWalk == Deliver(WalkEvents)

SpecWalk == InitGame /\ [][NextWalk]_vars

\* SpecEquip: the player and the newt put on and take off the armor E2, which
\* the player may hold, while the strength of both is read.
EquipEvents ==
    {Equip("E1", "E2"), Equip("E4", "E2"), Unequip("E1", "E2"), Unequip("E4", "E2")}

NextEquip ==
    \/ Deliver(EquipEvents)
    \/ CreateRelation({Hold("E1", "E2")})
    \/ GetAttr(ChainViews \cup {[cls |-> "Combatant", entity |-> "E4"]})

SpecEquip == InitGame /\ [][NextEquip]_vars

\* SpecCombat: the driver queues attacks and damage and processes the queue;
\* the player may wear the armor and the newt the amulet.
CombatEvents ==
    {MeleeAttack("E1", "E4"), Damage("E4", 0), Damage("E4", 2), Damage("E4", 12)}

\* The relation tables when the relations rels, at most one per entity and
\* kind, have been created.
Related(rels) ==
    [e \in Entities |->
        IF \E r \in rels : e \in {r.from_entity, r.to_entity}
        THEN AddRelation(<<>>, CHOOSE r \in rels : e \in {r.from_entity, r.to_entity}, 1)
        ELSE <<>>]

WornAmulet == [id |-> 2] @@ Wear("E4", "E3")

InitCombat ==
    /\ classes = ClassTable
    /\ defError = {}
    /\ calls = <<>>
    /\ outcome = "none"
    /\ lastOp = NoOp
    /\ component_data \in {GameData(h) : h \in StartHealth}
    /\ relations \in {Related(rels) : rels \in SUBSET {WornArmor, WornAmulet}}
    /\ initializers = {}
    /\ dispatched = 0
    /\ declared = <<>>
    /\ world = World0
    /\ instances = <<>>
    /\ attacks = <<>>

NextCombat == QueueEvent(CombatEvents) \/ ProcessNext

SpecCombat == InitCombat /\ [][NextCombat]_vars

(***************************************************************************)
(* Properties of class definition and dispatch (SpecClass).                *)
(***************************************************************************)
RECURSIVE Declared(_, _)
\* The functions a class body marks as handlers of kind k, in declaration
\* order, once for each time the function is marked for k.
Declared(body, k) ==
    IF body = <<>> THEN <<>>
    ELSE [j \in 1..Cardinality({n \in 1..Len(Head(body).value.event_classes) :
                                  Head(body).value.event_classes[n] = k})
            |-> Head(body).key] \o Declared(Tail(body), k)

RECURSIVE DeclaredAlong(_, _)
\* The concatenation of Declared over a hierarchy, first kind first.
DeclaredAlong(body, kinds) ==
    IF kinds = <<>> THEN <<>>
    ELSE Declared(body, Head(kinds)) \o DeclaredAlong(body, Tail(kinds))

MarkedFor(entry, k) == k \in Range(entry.value.event_classes)

Dispatched == lastOp.op = "handle_event"

\* C1: a dispatch that returns has invoked, for the event's hierarchy from the
\* most specific kind to the most general, the handlers declared for each kind
\* in turn; so for a Derived event the handlers of Derived come first, before
\* any handler declared only for Base.
C1_DispatchSpecificity ==
    (Dispatched /\ outcome = "returned") =>
        LET body == declared["T"]
            first == Declared(body, lastOp.event)
        IN  /\ calls = DeclaredAlong(body, Mro(lastOp.event))
            /\ SubSeq(calls, 1, Len(first)) = first
            /\ lastOp.event = "Derived" =>
                 \A j \in 1..Len(calls) :
                    (calls[j] \in Range(Declared(body, "Base"))
                       /\ calls[j] \notin Range(first)) => j > Len(first)

\* C1 witness: h1 is declared first, for Base; h2 after it, for Derived; a
\* Derived event has called h2 and then h1.
C1_Witness ==
    /\ Dispatched /\ outcome = "returned" /\ lastOp.event = "Derived"
    /\ declared["T"] = <<Def("h1", <<"Base">>), Def("h2", <<"Derived">>)>>
    /\ calls = <<"h2", "h1">>

\* C2: of two handlers declared for the kind of the event delivered, the one
\* declared first is invoked first, on every dispatch: the second is never
\* invoked without the first having been invoked before it, and both are
\* invoked when the dispatch returns.
C2_DeclarationOrder ==
    Dispatched =>
        LET body == declared["T"] IN
        \A p, q \in 1..Len(body) :
            (p < q /\ MarkedFor(body[p], lastOp.event) /\ MarkedFor(body[q], lastOp.event)) =>
                /\ body[q].key \in Range(calls) =>
                     /\ body[p].key \in Range(calls)
                     /\ IndexOf(calls, body[p].key) < IndexOf(calls, body[q].key)
                /\ outcome = "returned" => body[q].key \in Range(calls)

\* C2 witness: the second dispatch of a Base event to a class declaring h1 and
\* then h2 for Base has called h1 and then h2.
C2_Witness ==
    /\ Dispatched /\ dispatched = 2 /\ lastOp.event = "Base"
    /\ declared["T"] = <<Def("h1", <<"Base">>), Def("h2", <<"Base">>)>>
    /\ calls = <<"h1", "h2">>

\* C3: the registry of a class has the keys and the handler lists it was
\* given when the class was defined.
C3_RegistryNeverMutated ==
    "T" \in DOMAIN classes =>
        classes["T"].event_handlers
            = ComponentMeta_new(Namespace(declared["T"])).event_handlers

\* C9: a handler that raises ends the dispatch: it is the last handler called,
\* was called once, and the dispatch raises exactly when a called handler does.
C9_HandlerFailureAborts ==
    Dispatched =>
        /\ \A i \in 1..Len(calls) : calls[i] \in lastOp.bad => i = Len(calls)
        /\ outcome = "raised" <=> \E i \in 1..Len(calls) : calls[i] \in lastOp.bad
        /\ outcome \in {"raised", "returned"}

\* C9 witness: h1 handles Derived and raises; h2, declared for Base, was due
\* after it and was not called.
C9_Witness ==
    /\ Dispatched /\ outcome = "raised" /\ lastOp.event = "Derived"
    /\ lastOp.bad = {"h1"}
    /\ declared["T"] = <<Def("h1", <<"Derived", "Base">>), Def("h2", <<"Base">>)>>
    /\ calls = <<"h1">>

Defining == lastOp.op = "class"

\* The kinds some entry of a class body is marked for.
MarkedKinds(body) == UNION {Range(body[i].value.event_classes) : i \in 1..Len(body)}

\* What C11 says of a class with the given body, registry and own namespace.
Registered(body, event_handlers, dict) ==
    /\ \A i \in 1..Len(body) :
          IF body[i].value.isHandler
          THEN body[i].key # "event_handlers" => body[i].key \notin Range(dict)
          ELSE body[i].key \in Range(dict)
    /\ DOMAIN event_handlers = MarkedKinds(body)
    /\ \A k \in MarkedKinds(body) : event_handlers[k] = Declared(body, k)

\* C11: a class statement that succeeds leaves no @handler-marked method of
\* the body in the class's own namespace (the name event_handlers, which the
\* metaclass binds to the registry, apart), keeps every unmarked binding
\* there, and files each marked method in the registry under every kind it
\* was marked for, in declaration order, and nothing else; so for the
\* classes of the module.
C11_HandlerRegistration ==
    /\ (Defining /\ outcome = "returned") =>
          Registered(lastOp.attrs, classes["T"].event_handlers, classes["T"].dict)
    /\ \A n \in 1..Len(ModuleClasses) :
          Registered(ModuleClasses[n].attrs,
                     ClassTable[ModuleClasses[n].name].event_handlers,
                     ClassTable[ModuleClasses[n].name].dict)

\* C11 witness: h1, marked for Derived and for Base, is declared before the
\* unmarked h2; the class has h2 and not h1, and h1 is filed under both kinds.
C11_Witness ==
    /\ Defining /\ outcome = "returned"
    /\ lastOp.attrs = <<Def("h1", <<"Derived", "Base">>), Def("h2", <<>>)>>
    /\ "h2" \in Range(classes["T"].dict) /\ "h1" \notin Range(classes["T"].dict)
    /\ classes["T"].event_handlers = ("Base" :> <<"h1">>) @@ ("Derived" :> <<"h1">>)

\* The names a class body binds.
BodyNames(attrs) == {attrs[i].key : i \in 1..Len(attrs)}

\* The names of the class's own namespace when its descriptors are installed:
\* the body's bindings other than @handler-marked methods, and the names the
\* class statement and the metaclass add.
OwnNames(attrs) ==
    {attrs[i].key : i \in {n \in 1..Len(attrs) : ~attrs[n].value.isHandler}}
        \cup {"__module__", "__qualname__", "__doc__", "event_handlers", "interface"}

Unrelated(e) == \A i \in 1..Len(relations[e]) : relations[e][i].rels = <<>>

\* What a read of attr on entity e returns in the current state.
Reading(e, attr) ==
    ComponentAttribute_get(component_data[e], relations[e], e, attr)

\* C4: a read that follows a write of v to the same attribute through a view
\* of the same entity, the entity having no relations, returns v.
C4_AttributeRoundTrip ==
    [][(/\ lastOp.op = "set" /\ lastOp'.op = "get"
        /\ lastOp'.entity = lastOp.entity /\ lastOp'.attr = lastOp.attr
        /\ Unrelated(lastOp.entity))
       => (outcome' = "returned" /\ lastOp'.read = lastOp.written)]_vars

\* C4 witness: strength, overwritten with 7 on E1 after E1 took the armor off
\* again, has been read back as 7.
C4_Witness ==
    /\ lastOp.op = "get" /\ outcome = "returned" /\ lastOp.entity = "E1"
    /\ lastOp.attr = AttrOf("ICombatant", "strength")
    /\ relations["E1"] # <<>> /\ Unrelated("E1")
    /\ lastOp.read = 7 /\ component_data["E1"][lastOp.attr] = 7

SameNamed == {AttrOf("I1", "value"), AttrOf("I2", "value")}

\* C5: the attributes named "value" of I1 and I2 have different storage keys,
\* and a write of either on an entity leaves what a read of the other on
\* that entity returns as it was.
C5_NameNonCollision ==
    [][(lastOp'.op = "set" /\ lastOp'.attr \in SameNamed)
       => /\ Cardinality(SameNamed) = 2
          /\ \A other \in SameNamed \ {lastOp'.attr} :
               ComponentAttribute_get(component_data'[lastOp'.entity],
                                      relations'[lastOp'.entity], lastOp'.entity, other)
                   = Reading(lastOp'.entity, other)]_vars

\* C5 witness: I1's value has just been written 0 on E1 while I2's value on
\* E1 is 7.
C5_Witness ==
    /\ lastOp.op = "set" /\ lastOp.entity = "E1" /\ lastOp.cls = "V1"
    /\ lastOp.attr = AttrOf("I1", "value") /\ lastOp.written = 0
    /\ AttrOf("I2", "value") \in DOMAIN component_data["E1"]
    /\ Reading("E1", AttrOf("I2", "value")).value = 7
    /\ Reading("E1", AttrOf("I1", "value")).value = 0

\* C6: calling a component class returns an initializer holding the class and
\* the arguments, and changes no entity's storage or relation table; storage
\* changes only in init_entity.
C6_CapturePurity ==
    [][/\ lastOp'.op = "call" =>
            /\ component_data' = component_data /\ relations' = relations
            /\ outcome' = "returned"
            /\ initializers' = initializers
                    \cup {[component |-> lastOp'.component, kwargs |-> lastOp'.kwargs]}
       /\ component_data' # component_data => lastOp'.op = "init_entity"]_vars

\* C6 witness: a second initializer has been captured after E1 was
\* initialised and related to E2.
C6_Witness ==
    /\ lastOp.op = "call" /\ Cardinality(initializers) = 2
    /\ DOMAIN component_data["E1"] # {} /\ relations["E1"] # <<>>
    /\ DOMAIN component_data["E2"] = {}

\* The storage a constructor leaves on a fresh entity.
Constructed(component, kwargs) ==
    CASE component = "Combatant" ->
            (AttrOf("ICombatant", "health") :> kwargs.health)
                @@ (AttrOf("ICombatant", "strength") :> kwargs.strength)
      [] component = "Container" -> (AttrOf("IContainer", "inventory") :> <<>>)
      [] component = "PortalDownstairs" ->
            (AttrOf("IPortal", "destination") :> kwargs.destination)

\* C7: init_entity on a fresh entity leaves in its storage exactly the
\* attributes the constructor writes, with the values the constructor derives
\* from the captured arguments, and changes no other entity's storage and no
\* relation table.
C7_SingleApplication ==
    [][(/\ lastOp'.op = "init_entity" /\ outcome' = "returned"
        /\ DOMAIN component_data[lastOp'.entity] = {})
       => /\ component_data'[lastOp'.entity]
                = Constructed(lastOp'.component, lastOp'.kwargs)
          /\ \A e \in Entities \ {lastOp'.entity} : component_data'[e] = component_data[e]
          /\ relations' = relations]_vars

\* C7 witness: Combatant(health=10, strength=3) has initialised the fresh E2
\* while E1 holds an inventory.
C7_Witness ==
    /\ lastOp.op = "init_entity" /\ outcome = "returned"
    /\ lastOp.entity = "E2" /\ lastOp.component = "Combatant"
    /\ DOMAIN component_data["E2"]
          = {AttrOf("ICombatant", "health"), AttrOf("ICombatant", "strength")}
    /\ component_data["E2"][AttrOf("ICombatant", "health")] = 10
    /\ component_data["E2"][AttrOf("ICombatant", "strength")] = 3
    /\ DOMAIN component_data["E1"] = {AttrOf("IContainer", "inventory")}

RECURSIVE ChainOf(_, _)
\* The modifiers that apply to a read on entity e, given the relations of
\* its table laid end to end: those of the type of each relation's object
\* other than e.
ChainOf(rels, e) ==
    IF rels = <<>> THEN <<>>
    ELSE ChainOf(SubSeq(rels, 1, Len(rels) - 1), e)
            \o (IF rels[Len(rels)].to_entity = e THEN <<>>
                ELSE TypeModifiers[EntityType[rels[Len(rels)].to_entity]])

RECURSIVE AllRelations(_)
AllRelations(table) ==
    IF table = <<>> THEN <<>> ELSE Head(table).rels \o AllRelations(Tail(table))

RECURSIVE Folded(_, _, _)
\* value folded through the modifiers mods, first modifier innermost.
Folded(mods, attr, value) ==
    IF mods = <<>> THEN value
    ELSE modify(mods[Len(mods)], attr, Folded(SubSeq(mods, 1, Len(mods) - 1), attr, value))

\* C8: a read returns the stored value folded through the modifiers of the
\* types of the objects, other than the entity itself, of the relations in
\* the entity's table, in table order; a wearer of the +5 armor alone reads
\* the stored value + 5 and an entity nothing is related to reads the stored
\* value.
C8_ModifierChain ==
    (lastOp.op = "get" /\ outcome = "returned") =>
        LET e == lastOp.entity
            raw == component_data[e][lastOp.attr]
            rels == AllRelations(relations[e])
        IN  /\ lastOp.read = Folded(ChainOf(rels, e), lastOp.attr, raw)
            /\ (\A i \in 1..Len(rels) : rels[i].to_entity = e) => lastOp.read = raw
            /\ (/\ lastOp.attr = AttrOf("ICombatant", "strength")
                /\ Len(rels) = 1 /\ rels[1] = [id |-> rels[1].id] @@ Wear(e, "E2"))
               => lastOp.read = raw + 5

\* C8 witness: E1, of strength 3, wears the armor E2 and then the amulet E3
\* and reads (3 + 5) * 2 + 1, while E2 holds stored strength 3 too.
C8_Witness ==
    /\ lastOp.op = "get" /\ lastOp.entity = "E1"
    /\ lastOp.attr = AttrOf("ICombatant", "strength")
    /\ Len(relations["E1"]) = 1 /\ Len(relations["E1"][1].rels) = 2
    /\ relations["E1"][1].rels[1].to_entity = "E2"
    /\ relations["E1"][1].rels[2].to_entity = "E3"
    /\ lastOp.read = 17
    /\ component_data["E2"][lastOp.attr] = 3

(***************************************************************************)
(* Properties of combat (SpecCombat).                                      *)
(***************************************************************************)
Health == AttrOf("ICombatant", "health")
Strength == AttrOf("ICombatant", "strength")

\* The step processes an event of the given kind.
Processing(kind) == lastOp'.op = "process" /\ lastOp'.event.kind = kind

\* The event e as a handler of the event cause makes it.
Follow(e, cause) == [e EXCEPT !.origin = cause.origin]

\* C12: when Damage(amount=a) is delivered to a combatant without relations
\* whose health is h, the delivery returns, the health becomes h - a and
\* nothing else is stored; one Die for the entity is put at the front of the
\* queue when h - a <= 0, and the queue is otherwise left as it was.
C12_DamageScenario ==
    [][(Processing("Damage") /\ Unrelated(lastOp'.event.target)) =>
        LET e == lastOp'.event.target
            left == component_data[e][Health] - lastOp'.event.amount
        IN  /\ outcome' = "returned"
            /\ component_data' = [component_data EXCEPT ![e][Health] = left]
            /\ world'.queue = (IF left <= 0 THEN <<Follow(Die(e), lastOp'.event)>> ELSE <<>>)
                                  \o Tail(world.queue)
            /\ world'.map = world.map]_vars

\* C12 witness: Damage(amount=12) has left the newt, whose health was 10 and
\* which has no relations, a health of -2, and a Die for it is first in the
\* queue.
C12_Witness ==
    /\ lastOp.op = "process" /\ lastOp.event.kind = "Damage"
    /\ lastOp.event.target = "E4" /\ lastOp.event.amount = 12
    /\ Unrelated("E4") /\ component_data["E4"][Health] = -2
    /\ world.queue # <<>> /\ Head(world.queue) = Follow(Die("E4"), lastOp.event)

\* C16: handling MeleeAttack(actor=A) on T puts, first in the queue, a
\* Damage on T of the strength read through A's combatant view; a Damage that
\* leaves its target's health at or below zero puts a Die on it first in the
\* queue; and when an event that was queued behind a MeleeAttack is
\* processed, the target of that attack, if the attack's Damage left its
\* health at or below zero, is off the map.
C16_AttackChain ==
    /\ [][Processing("MeleeAttack") =>
            /\ outcome' = "returned"
            /\ world'.queue =
                  <<Follow(Damage(lastOp'.event.target,
                                  Reading(lastOp'.event.actor, Strength).value),
                           lastOp'.event)>> \o Tail(world.queue)]_vars
    /\ [][(/\ Processing("Damage")
            /\ ComponentAttribute_get(component_data'[lastOp'.event.target],
                                      relations'[lastOp'.event.target],
                                      lastOp'.event.target, Health).value <= 0)
           => world'.queue = <<Follow(Die(lastOp'.event.target), lastOp'.event)>>
                                \o Tail(world.queue)]_vars
    /\ [][lastOp'.op = "process" =>
            \A n \in DOMAIN attacks' :
                (attacks'[n].deadly /\ lastOp'.event.origin \in attacks'[n].behind)
                    => attacks'[n].target \notin world'.map]_vars

\* C16 witness: the player, wearing the armor, attacked the newt of health 2
\* while a Damage on the newt was queued behind the attack; that Damage has
\* now been processed, with the newt off the map.
C16_Witness ==
    /\ lastOp.op = "process" /\ lastOp.event.kind = "Damage"
    /\ \E n \in DOMAIN attacks :
          /\ attacks[n].deadly /\ attacks[n].target = "E4"
          /\ lastOp.event.origin \in attacks[n].behind
    /\ ~Unrelated("E1")
    /\ "E4" \notin world.map

\* C20: handling Damage(amount=a) lowers what a read of the target's health
\* returns by a, and handling Damage(amount=0) leaves the stored health as it
\* was, whatever modifiers the target's relations contribute.
C20_DamageUnderModifiers ==
    [][Processing("Damage") =>
        LET e == lastOp'.event.target IN
        /\ ComponentAttribute_get(component_data'[e], relations'[e], e, Health).value
              = Reading(e, Health).value - lastOp'.event.amount
        /\ lastOp'.event.amount = 0 => component_data'[e][Health] = component_data[e][Health]]_vars

(***************************************************************************)
(* Properties of walking (SpecWalk) and of equipment (SpecEquip).          *)
(***************************************************************************)
\* The step hands an event of the given kind to its target.
Delivering(kind) == lastOp'.op = "deliver" /\ lastOp'.event.kind = kind

HasComponent(entity, cls) == cls \in Range(TypeComponents[EntityType[entity]])

\* C14: a Walk handed to an entity with Solid physics leaves the event
\* cancelled and every position as it was; handed to an entity with Empty
\* physics it leaves the actor at the target's position, the other positions
\* as they were and the event not cancelled.
C14_WalkScenario ==
    [][Delivering("Walk") =>
        LET actor == lastOp'.event.actor
            target == lastOp'.event.target
        IN  /\ outcome' = "returned"
            /\ HasComponent(target, "Solid") =>
                  lastOp'.cancelled /\ world'.position = world.position
            /\ HasComponent(target, "Empty") =>
                  /\ ~lastOp'.cancelled
                  /\ world'.position =
                        [e \in Entities |-> IF e = actor THEN world.position[target]
                                            ELSE world.position[e]]]_vars

\* C14 witness: the player, who walked onto the floor tile E6 before, has
\* walked into the wall E5: the event is cancelled and the player still on
\* the tile.
C14_Witness ==
    /\ lastOp.op = "deliver" /\ lastOp.event = Walk("E1", "E5") /\ lastOp.cancelled
    /\ world.position["E1"] = StartPosition["E6"]

\* The Wears relations between two entities, either way round, found in the
\* tables rel of the two.
WearsBetween(rel, a, b) ==
    {r \in Range(OfKind(rel[a], "Wears")) \cup Range(OfKind(rel[b], "Wears")) :
        {r.from_entity, r.to_entity} = {a, b}}

\* C13: Equip(actor=P, target=A) handed to the armor A adds one relation, a
\* Wears from P to A, to the tables of both; after Unequip(actor=P, target=A)
\* is handed to A there is no Wears relation between P and A in either table.
C13_EquipRoundTrip ==
    /\ [][Delivering("Equip") =>
            LET P == lastOp'.event.actor
                A == lastOp'.event.target
                new == AliveIn(relations') \ Alive
            IN  /\ outcome' = "returned"
                /\ Cardinality(new) = 1 /\ Alive \subseteq AliveIn(relations')
                /\ \A r \in new :
                      /\ r.reltype = "Wears" /\ r.from_entity = P /\ r.to_entity = A
                      /\ r \in Range(OfKind(relations'[P], "Wears"))
                      /\ r \in Range(OfKind(relations'[A], "Wears"))]_vars
    /\ [][Delivering("Unequip") =>
            /\ outcome' = "returned"
            /\ WearsBetween(relations', lastOp'.event.actor, lastOp'.event.target) = {}]_vars

\* C13 witness: the player had put on the armor E2 and has taken it off: the
\* tables of both have the kind Wears, with no relation under it.
C13_Witness ==
    /\ lastOp.op = "deliver" /\ lastOp.event = Unequip("E1", "E2")
    /\ \E n \in 1..Len(relations["E1"]) : relations["E1"][n].reltype = "Wears"
    /\ WearsBetween(relations, "E1", "E2") = {}

\* C15: Unequip(actor=P, target=A) leaves alive every relation that is not
\* a Wears relation starting at P: the Wears relations on A of other wearers
\* and the relations of other kinds.
C15_UnequipScoped ==
    [][Delivering("Unequip") =>
        \A r \in Alive :
            (r.reltype # "Wears" \/ r.from_entity # lastOp'.event.actor)
                => r \in AliveIn(relations')]_vars

\* C19: there is at most one Wears relation from a given actor to the armor
\* E2, so a read of a wearer's strength applies the armor's +5 at most once;
\* and after an Unequip the armor has no Wears relation.
C19_SingleWearsEdge ==
    /\ \A a \in Entities :
          Cardinality({r \in Alive : r.reltype = "Wears" /\ r.from_entity = a
                                     /\ r.to_entity = "E2"}) <= 1
    /\ (lastOp.op = "get" /\ outcome = "returned" /\ lastOp.attr = Strength) =>
          lastOp.read \in {component_data[lastOp.entity][Strength],
                           component_data[lastOp.entity][Strength] + 5}
    /\ (lastOp.op = "deliver" /\ lastOp.event.kind = "Unequip") =>
          OfKind(relations["E2"], "Wears") = <<>>

(***************************************************************************)
(* Properties of subclasses (SpecSub).                                     *)
(***************************************************************************)
\* The handlers a registry holds for kind k.
HandlersFor(event_handlers, k) ==
    IF k \in DOMAIN event_handlers THEN event_handlers[k] ELSE <<>>

\* C18: the registry of a class, also of a subclass of a class with
\* handlers, holds for every kind the handlers its own class body declares
\* for the kind and no others; a dispatch to an instance of the class calls
\* those declared in its own body along the event's hierarchy, and none when
\* the body declares none.
C18_RegistryPerClassBody ==
    /\ \A c \in {"T", "S"} \cap DOMAIN classes : \A k \in EventKinds :
          HandlersFor(classes[c].event_handlers, k) = Declared(declared[c], k)
    /\ Dispatched =>
          /\ calls = DeclaredAlong(declared[lastOp.cls], Mro(lastOp.event))
          /\ MarkedKinds(declared[lastOp.cls]) = {} => calls = <<>>
    /\ ClassTable["PortalDownstairs"].event_handlers = ("Descend" :> <<"handle_descend">>)
    /\ ClassTable["Portal"].event_handlers = EmptyRegistry

\* C18 witness: T declares h1 for Base and h2 for Derived; its subclass S
\* declares the unmarked g only; a Derived event handed to an instance of S
\* has called nothing.
C18_Witness ==
    /\ Dispatched /\ lastOp.cls = "S" /\ lastOp.event = "Derived" /\ calls = <<>>
    /\ declared["T"] = <<Def("h1", <<"Base">>), Def("h2", <<"Derived">>)>>
    /\ declared["S"] = <<Def("g", <<>>)>>

(***************************************************************************)
(* Properties of component instances (SpecView).                           *)
(***************************************************************************)
\* What a read of the stored attribute attr on entity e is to return: the
\* stored value folded through the modifier chain of e.
Expected(e, attr) ==
    Folded(ChainOf(AllRelations(relations[e]), e), attr, component_data[e][attr])

\* The instances over the same entity as instances[n] whose class implements
\* the same interface.
Fellows(n) ==
    {m \in 1..Len(instances) :
        /\ instances[m].entity = instances[n].entity
        /\ classes[instances[m].cls].interface = classes[instances[n].cls].interface}

\* C17: no instance holds anything but its entity; once a value is written
\* to a stored attribute through an instance, the entity's storage holds it
\* and a read of the attribute through any instance over the same entity
\* whose class implements the same interface returns it, folded through the
\* entity's modifier chain; a read through an instance returns the same, and
\* adapting and reading change neither the storage nor any instance.
C17_ViewSemantics ==
    /\ [](\A n \in 1..Len(instances) : instances[n].dict = EmptyDict)
    /\ [](lastOp.op = "iset" =>
            LET inst == instances[lastOp.instance]
                attr == AttrOf(classes[inst.cls].interface, lastOp.name)
            IN  /\ component_data[inst.entity][attr] = lastOp.written
                /\ \A m \in Fellows(lastOp.instance) :
                      Instance_getattr(classes, instances[m], component_data, relations,
                                       lastOp.name)
                        = [raised |-> FALSE,
                           value |-> Folded(ChainOf(AllRelations(relations[inst.entity]),
                                                    inst.entity),
                                            attr, lastOp.written)])
    /\ [](lastOp.op = "iget" /\ outcome = "returned" =>
            LET inst == instances[lastOp.instance] IN
            lastOp.read = Expected(inst.entity,
                                   AttrOf(classes[inst.cls].interface, lastOp.name)))
    /\ [][lastOp'.op \in {"iget", "adapt"} =>
            /\ component_data' = component_data
            /\ \A n \in 1..Len(instances) : instances'[n] = instances[n]]_vars

\* C17 witness: 7 has just been written to the destination through an
\* instance of Portal over E1, and a read through the instance of
\* PortalDownstairs adapted separately over E1 returns 7.
C17_Witness ==
    /\ Len(instances) = 2
    /\ instances[1].cls = "Portal" /\ instances[2].cls = "PortalDownstairs"
    /\ lastOp.op = "iset" /\ lastOp.instance = 1 /\ lastOp.name = "destination"
    /\ lastOp.written = 7
    /\ Instance_getattr(classes, instances[2], component_data, relations, "destination")
          = [raised |-> FALSE, value |-> 7]

====
